---- MODULE Spec2Model ----
(***************************************************************************)
(* StandardServiceControl (standardservicecontrol.cpp): the controller     *)
(* side of the "standard"/"debug" service backend.  Several controller     *)
(* processes and the spawned service processes share one QLockFile         *)
(* (qstandard.lock).  Every control call is split at the points where it   *)
(* touches state shared with other processes (the lock file, the process   *)
(* table, consoles), so that calls of different controllers interleave.    *)
(***************************************************************************)
EXTENDS Integers, Sequences, FiniteSets, TLC

(* ---- bounds of the model ---- *)
MaxCalls == 2

(* ---- program constants ---- *)
MaxAttempts == 10
PidNotFound == -1

Controllers == {1, 2}
(* every call spawns at most one process, so MaxCalls pids are enough *)
SvcPids == {10 + k : k \in 1..MaxCalls}
NoPid == 0

(* the pid of a controller process is its index; spawned services get 11, 12, ... *)
ControllerPid(c) == c

(* QLockFile::LockError *)
NoError == "NoError"
LockFailedError == "LockFailedError"
PermissionError == "PermissionError"
UnknownError == "UnknownError"
OtherLockErrors == {PermissionError, UnknownError}

(* ServiceControl::Status *)
Stopped == "Stopped"
Running == "Running"
Unknown == "Unknown"
NoStatus == "None"

(* the messages passed to setError; NoMessage: setError not called in this call *)
NoMessage == ""
ErrLockAccess == "Failed to access lockfile with error"
ErrNoExecutable == "Unabled to find executable for service with id"
ErrStartFailed == "Failed to start service process with error"
ErrNoPid == "Failed to get pid of running service"
ErrSendFailed == "Failed to send stop signal with error"
ErrNotStopped == "Service did not stop yet"
ErrHandler == "Failed to disable local console handler with error"
ErrAttach == "Failed to attach to service console with error"

Ops == {"status", "start", "stop", "getPid", "serviceExists"}

VARIABLES
    isWin,        \* build: Q_OS_WIN defined
    debugMode,    \* _debugMode of each controller: 1 is a "standard", 2 a "debug" one
    exe,          \* QStandardPaths::findExecutable(serviceId()) is non-empty, per controller
    holder,       \* pid of the process holding qstandard.lock (its metadata), NoPid if free
    svc,          \* spawned service processes: "none", "spawned", "running", "exited"
    console,      \* console attachment of each controller process: "none", "own", "target";
                  \* on Windows controller 1 starts with a console, controller 2 without
    bypass,       \* SetConsoleCtrlHandler(nullptr, true) in effect in the controller process
    nCalls,       \* control calls made so far
    frame         \* the running (or last finished) call of each controller

vars == <<isWin, debugMode, exe, holder, svc, console, bypass, nCalls, frame>>

env == <<isWin, debugMode, exe>>

Alive(p) == p \in Controllers \/ (p \in SvcPids /\ svc[p] \in {"spawned", "running"})

(* StandardServiceControl::backend *)
backend(c) == IF debugMode[c] THEN "debug" ELSE "standard"

(* StandardServiceControl::supportFlags, QT_CONFIG(process) set *)
supportFlags(c) == {"Status", "Stop", "Start"}

(* StandardServiceControl::blocking *)
blocking(c) == IF isWin THEN "Undetermined" ELSE "NonBlocking"

(* the call a controller is running: its position, its C++ locals, what it   *)
(* returns and the error it set.  At pc = "done" the call is at its return   *)
(* statement; once the caller has taken the result (pc = "idle") only the    *)
(* operation, its boolean result and the process it spawned (for a start()   *)
(* also what its status() check reported) are remembered.                    *)
(* stRes is what the last status() call returned, entrySt what the status()  *)
(* call at the entry of start() or stop() returned.  prevStart and started   *)
(* are history: how the start() right before this start() ended, and the     *)
(* process this controller's last spawn launched.                            *)
EmptyFrame ==
    [ pc |-> "idle", op |-> "none", caller |-> "none",
      stRes |-> NoStatus, entrySt |-> NoStatus, lockErr |-> NoError, probes |-> 0,
      error |-> NoMessage, ret |-> FALSE,
      pid |-> 0, info |-> "none", spawnPid |-> NoPid, launch |-> <<>>,
      i |-> 0, ok |-> FALSE, generated |-> FALSE, kills |-> 0,
      hadConsole |-> FALSE, entryConsole |-> "none", touched |-> FALSE,
      prevStart |-> "none", started |-> NoPid ]

(* the return statement of the public operation *)
Return(f) ==
    [f EXCEPT !.pc = "done", !.caller = "none", !.i = 0, !.hadConsole = FALSE]

Init ==
    /\ isWin \in BOOLEAN
    /\ debugMode = [c \in Controllers |-> c = 2]
    /\ exe \in [Controllers -> BOOLEAN]
    /\ holder = NoPid
    /\ svc = [p \in SvcPids |-> "none"]
    /\ console = [c \in Controllers |-> IF isWin /\ c = 2 THEN "none" ELSE "own"]
    /\ bypass = [c \in Controllers |-> FALSE]
    /\ nCalls = 0
    /\ frame = [c \in Controllers |-> EmptyFrame]

(* ---- a control call begins: the caller invokes one public operation ---- *)
FirstPc(o) ==
    CASE o \in {"status", "start", "stop"} -> "status_tryLock"
      [] o = "getPid" -> "getPid"
      [] o = "serviceExists" -> "serviceExists"

(* how the call before a start() ended, when that was a start() too: it      *)
(* failed, found the service running, spawned it after status() reported     *)
(* Stopped, or spawned it "blind" after status() reported Unknown            *)
PrevStart(f, o) ==
    IF o = "start" /\ f.op = "start"
    THEN IF ~f.ret THEN "failed"
         ELSE IF f.spawnPid = NoPid THEN "running"
         ELSE IF f.stRes = Stopped THEN "spawned" ELSE "blind"
    ELSE "none"

Call(c, o) ==
    /\ frame[c].pc = "idle"
    /\ nCalls < MaxCalls
    /\ nCalls' = nCalls + 1
    /\ frame' = [frame EXCEPT ![c] =
            [EmptyFrame EXCEPT !.pc = FirstPc(o), !.op = o, !.caller = o,
                               !.entryConsole = console[c],
                               !.prevStart = PrevStart(frame[c], o),
                               !.started = frame[c].started]]
    /\ UNCHANGED <<env, holder, svc, console, bypass>>

(* the call has returned to its caller *)
Returned(c) ==
    /\ frame[c].pc = "done"
    /\ frame' = [frame EXCEPT ![c] =
            [EmptyFrame EXCEPT !.op = frame[c].op, !.ret = frame[c].ret,
                               !.stRes = IF frame[c].op = "start" THEN frame[c].stRes
                                         ELSE NoStatus,
                               !.spawnPid = frame[c].spawnPid,
                               !.started = frame[c].started]]
    /\ UNCHANGED <<env, holder, svc, console, bypass, nCalls>>

(* ---- status(): lines 44-56 ---- *)
(* a status() that takes every failed tryLock for a held lock *)
statusResult_failedIsRunning(locked, lockError) ==
    IF locked THEN Stopped ELSE Running

(* the value status() returns for the outcome of lock->tryLock() *)
statusResult(locked, lockError) ==
    IF locked THEN Stopped
    ELSE IF lockError = LockFailedError THEN Running
    ELSE Unknown

(* a lock() that waits: it has no outcome while another process holds the lock *)
tryLockOutcomes_waits(h) ==
    IF h = NoPid THEN {NoError} \cup OtherLockErrors ELSE {}

(* QLockFile::tryLock(0): NoError when the lock is free, LockFailedError when *)
(* another process holds it, or an access error of the file system            *)
tryLockOutcomes(h) ==
    (IF h = NoPid THEN {NoError} ELSE {LockFailedError}) \cup OtherLockErrors

(* start(): lines 79-82, what start() does with the result of status() *)
start_afterStatus(f) ==
    IF f.stRes = Running
    THEN Return([f EXCEPT !.ret = TRUE])
    ELSE [f EXCEPT !.pc = "start_findExecutable"]

(* a stop() without the early return of lines 142-145 *)
stop_afterStatus_noEarlyReturn(f) ==
    [f EXCEPT !.pc = "stop_getPid"]

(* stop(): lines 142-145, what stop() does with the result of status() *)
stop_afterStatus(f) ==
    IF f.stRes = Stopped
    THEN Return([f EXCEPT !.ret = TRUE])
    ELSE [f EXCEPT !.pc = "stop_getPid"]

(* a retry loop that takes the first generated event for a stopped service *)
loop_afterStatus_anyIsSuccess(f) ==
    [f EXCEPT !.ok = TRUE, !.pc = "stop_restoreHandler"]

(* stop(), Windows: lines 169-174, the status check inside the retry loop *)
loop_afterStatus(f) ==
    IF f.stRes = Running
    THEN [f EXCEPT !.pc = "stop_sleep"]
    ELSE [f EXCEPT !.ok = TRUE, !.pc = "stop_restoreHandler"]

(* control returns from status() to whoever called it; the QLockFile object *)
(* (and its error()) is a local of status() and ends with it                 *)
EndLock(f) == [f EXCEPT !.lockErr = NoError, !.probes = 0]

AfterStatus(f) ==
    CASE f.caller = "status" -> Return(f)
      [] f.caller = "start" -> start_afterStatus(EndLock([f EXCEPT !.entrySt = f.stRes]))
      [] f.caller = "stop" -> stop_afterStatus(EndLock([f EXCEPT !.entrySt = f.stRes]))
      [] f.caller = "loop" -> loop_afterStatus(EndLock(f))

(* lines 46-47 and 50-55: lock->tryLock() and the branches where it failed *)
status_tryLock(c) ==
    /\ frame[c].pc = "status_tryLock"
    /\ \E e \in tryLockOutcomes(holder) :
        LET f == [frame[c] EXCEPT !.lockErr = e, !.probes = @ + 1]
        IN IF e = NoError
           THEN /\ holder' = ControllerPid(c)
                /\ frame' = [frame EXCEPT ![c] = [f EXCEPT !.pc = "status_unlock"]]
           ELSE /\ holder' = holder
                /\ frame' = [frame EXCEPT ![c] =
                      LET r == statusResult(FALSE, e)
                      IN AfterStatus([f EXCEPT !.stRes = r,
                                 !.error = IF r = Unknown THEN ErrLockAccess ELSE @])]
    /\ UNCHANGED <<env, svc, console, bypass, nCalls>>

(* lines 48-49: lock->unlock(); return Status::Stopped *)
status_unlock(c) ==
    /\ frame[c].pc = "status_unlock"
    /\ holder' = NoPid
    /\ frame' = [frame EXCEPT ![c] =
            AfterStatus([frame[c] EXCEPT !.stRes = statusResult(TRUE, NoError)])]
    /\ UNCHANGED <<env, svc, console, bypass, nCalls>>

(* ---- serviceExists(): lines 39-42 ---- *)
serviceExists(c) ==
    /\ frame[c].pc = "serviceExists"
    /\ frame' = [frame EXCEPT ![c] = Return([@ EXCEPT !.ret = exe[c]])]
    /\ UNCHANGED <<env, holder, svc, console, bypass, nCalls>>

(* ---- getPid(): lines 206-214 ---- *)
(* a getPid() that returns its local pid as initialised, not as read *)
getPidResult_unset(h, readable) ==
    IF h # NoPid /\ readable THEN NoPid ELSE PidNotFound

(* a getPid() that does not notice that there is no lock file *)
getPidResult_ignoresMissing(h, readable) ==
    IF readable THEN h ELSE PidNotFound

(* getLockInfo succeeds when the lock file exists and its record can be read *)
getPidResult(h, readable) ==
    IF h # NoPid /\ readable THEN h ELSE PidNotFound

(* what getLockInfo met: no lock file, a record it could not read, or a record *)
LockInfo(h, readable) ==
    IF h = NoPid THEN "missing" ELSE IF readable THEN "read" ELSE "unreadable"

(* callGenericCommand("getPid"): lines 67-74 *)
getPid(c) ==
    /\ frame[c].pc = "getPid"
    /\ \E readable \in BOOLEAN :
        frame' = [frame EXCEPT ![c] =
            Return([@ EXCEPT !.pid = getPidResult(holder, readable),
                            !.info = LockInfo(holder, readable)])]
    /\ UNCHANGED <<env, holder, svc, console, bypass, nCalls>>

(* ---- start(): lines 76-138, QT_CONFIG(process) set ---- *)
(* a start() that does not test whether findExecutable found anything *)
start_findExecutable_unchecked(c) ==
    /\ frame[c].pc = "start_findExecutable"
    /\ frame' = [frame EXCEPT ![c] = [@ EXCEPT !.pc = "start_spawn"]]
    /\ UNCHANGED <<env, holder, svc, console, bypass, nCalls>>

(* lines 84-88: QStandardPaths::findExecutable(serviceId()) *)
start_findExecutable(c) ==
    /\ frame[c].pc = "start_findExecutable"
    /\ frame' = [frame EXCEPT ![c] =
            IF exe[c]
            THEN [@ EXCEPT !.pc = "start_spawn"]
            ELSE Return([@ EXCEPT !.error = ErrNoExecutable, !.ret = FALSE])]
    /\ UNCHANGED <<env, holder, svc, console, bypass, nCalls>>

(* a launch that names the standard backend whatever the mode *)
launchSpec_alwaysStandard(c) ==
    [ args |-> <<"--backend", "standard">>,
      workingDirectory |-> "/",
      io |-> IF debugMode[c] THEN "forwarded" ELSE "nullDevice" ]

(* lines 90-94 (prepareProc) with 104-105 or 118-120: how the process is launched *)
launchSpec(c) ==
    [ args |-> <<"--backend", backend(c)>>,
      workingDirectory |-> "/",
      io |-> IF debugMode[c] THEN "forwarded" ELSE "nullDevice" ]

FreePids == {p \in SvcPids : svc[p] = "none"}

(* lines 96-134: svcProc->start() and waitForStarted(), or startDetached(&pid) *)
start_spawn(c) ==
    /\ frame[c].pc = "start_spawn"
    /\ \/ /\ LET p == CHOOSE q \in FreePids : \A r \in FreePids : q <= r
             IN /\ svc' = [svc EXCEPT ![p] = "spawned"]
                /\ frame' = [frame EXCEPT ![c] =
                      Return([@ EXCEPT !.spawnPid = p, !.started = p,
                                       !.launch = launchSpec(c),
                                       !.ok = TRUE, !.ret = TRUE])]
       \/ /\ svc' = svc
          /\ frame' = [frame EXCEPT ![c] =
                Return([@ EXCEPT !.error = ErrStartFailed, !.ret = FALSE])]
    /\ UNCHANGED <<env, holder, console, bypass, nCalls>>

(* ---- stop(): lines 140-188 ---- *)
(* a stop() that goes on with whatever getPid() returned *)
stop_afterGetPid_unchecked(f, win) ==
    [f EXCEPT !.pc = IF win THEN "stop_FreeConsole" ELSE "stop_kill"]

(* lines 147-151: auto pid = getPid(); the early return when it is -1 *)
stop_afterGetPid(f, win) ==
    IF f.pid = PidNotFound
    THEN Return([f EXCEPT !.error = ErrNoPid, !.ret = FALSE])
    ELSE [f EXCEPT !.pc = IF win THEN "stop_FreeConsole" ELSE "stop_kill"]

stop_getPid(c) ==
    /\ frame[c].pc = "stop_getPid"
    /\ \E readable \in BOOLEAN :
        frame' = [frame EXCEPT ![c] =
            stop_afterGetPid(
                [@ EXCEPT !.pid = getPidResult(holder, readable),
                          !.info = LockInfo(holder, readable)], isWin)]
    /\ UNCHANGED <<env, holder, svc, console, bypass, nCalls>>

(* a stop() that reports success whatever kill() returned *)
stop_kill_alwaysTrue(c) ==
    /\ frame[c].pc = "stop_kill"
    /\ ~isWin
    /\ frame' = [frame EXCEPT ![c] = Return([@ EXCEPT !.kills = @ + 1, !.ret = TRUE])]
    /\ UNCHANGED <<env, holder, svc, console, bypass, nCalls>>

(* line 186, POSIX: return kill(pid, SIGTERM) == 0; kill fails with ESRCH when *)
(* no such process exists and may fail with EPERM when one does                *)
stop_kill(c) ==
    /\ frame[c].pc = "stop_kill"
    /\ ~isWin
    /\ \E delivered \in (IF Alive(frame[c].pid) THEN BOOLEAN ELSE {FALSE}) :
        frame' = [frame EXCEPT ![c] = Return([@ EXCEPT !.kills = @ + 1, !.ret = delivered])]
    /\ UNCHANGED <<env, holder, svc, console, bypass, nCalls>>

(* line 154, Windows: auto hadConsole = FreeConsole() *)
stop_FreeConsole(c) ==
    /\ frame[c].pc = "stop_FreeConsole"
    /\ isWin
    /\ console' = [console EXCEPT ![c] = "none"]
    /\ frame' = [frame EXCEPT ![c] =
          [@ EXCEPT !.hadConsole = (console[c] # "none"), !.touched = TRUE,
                    !.pc = "stop_AttachConsole"]]
    /\ UNCHANGED <<env, holder, svc, bypass, nCalls>>

(* lines 159 and 182-183: AttachConsole(pid) *)
stop_AttachConsole(c) ==
    /\ frame[c].pc = "stop_AttachConsole"
    /\ \E attached \in (IF Alive(frame[c].pid) THEN BOOLEAN ELSE {FALSE}) :
        IF attached
        THEN /\ console' = [console EXCEPT ![c] = "target"]
             /\ frame' = [frame EXCEPT ![c] = [@ EXCEPT !.pc = "stop_SetConsoleCtrlHandler"]]
        ELSE /\ console' = console
             /\ frame' = [frame EXCEPT ![c] =
                   [@ EXCEPT !.error = ErrAttach, !.pc = "stop_AllocConsole"]]
    /\ UNCHANGED <<env, holder, svc, bypass, nCalls>>

(* a stop() that leaves without detaching when the handler cannot be disabled *)
stop_SetConsoleCtrlHandler_noDetach(c) ==
    /\ frame[c].pc = "stop_SetConsoleCtrlHandler"
    /\ \E installed \in BOOLEAN :
        IF installed
        THEN /\ bypass' = [bypass EXCEPT ![c] = TRUE]
             /\ frame' = [frame EXCEPT ![c] =
                   [@ EXCEPT !.i = 0, !.pc = "stop_GenerateConsoleCtrlEvent"]]
        ELSE /\ bypass' = bypass
             /\ frame' = [frame EXCEPT ![c] =
                   [@ EXCEPT !.error = ErrHandler, !.pc = "stop_AllocConsole"]]
    /\ UNCHANGED <<env, holder, svc, console, nCalls>>

(* lines 163 and 180-181: SetConsoleCtrlHandler(nullptr, true) *)
stop_SetConsoleCtrlHandler(c) ==
    /\ frame[c].pc = "stop_SetConsoleCtrlHandler"
    /\ \E installed \in BOOLEAN :
        IF installed
        THEN /\ bypass' = [bypass EXCEPT ![c] = TRUE]
             /\ frame' = [frame EXCEPT ![c] =
                   [@ EXCEPT !.i = 0, !.pc = "stop_GenerateConsoleCtrlEvent"]]
        ELSE /\ bypass' = bypass
             /\ frame' = [frame EXCEPT ![c] =
                   [@ EXCEPT !.error = ErrHandler, !.pc = "stop_detach"]]
    /\ UNCHANGED <<env, holder, svc, console, nCalls>>

(* a retry loop whose test lets one more iteration through *)
loop_next_oneMore(f) ==
    LET g == [f EXCEPT !.i = @ + 1]
    IN IF g.i <= MaxAttempts
       THEN [g EXCEPT !.pc = "stop_GenerateConsoleCtrlEvent"]
       ELSE [g EXCEPT !.error = ErrNotStopped, !.pc = "stop_restoreHandler"]

(* lines 167 and 178-179: i++, the loop test, and after the loop if (!ok) setError *)
loop_next(f) ==
    LET g == [f EXCEPT !.i = @ + 1]
    IN IF g.i < MaxAttempts
       THEN [g EXCEPT !.pc = "stop_GenerateConsoleCtrlEvent"]
       ELSE [g EXCEPT !.error = ErrNotStopped, !.pc = "stop_restoreHandler"]

(* lines 168 and 175-176: GenerateConsoleCtrlEvent(CTRL_C_EVENT, 0) *)
stop_GenerateConsoleCtrlEvent(c) ==
    /\ frame[c].pc = "stop_GenerateConsoleCtrlEvent"
    /\ \E generated \in BOOLEAN :
        IF generated
        THEN frame' = [frame EXCEPT ![c] =
                   [@ EXCEPT !.generated = TRUE, !.caller = "loop", !.probes = 0,
                             !.pc = "status_tryLock"]]
        ELSE frame' = [frame EXCEPT ![c] =
                   loop_next([@ EXCEPT !.error = ErrSendFailed])]
    /\ UNCHANGED <<env, holder, svc, console, bypass, nCalls>>

(* line 170: QThread::msleep(500) *)
stop_sleep(c) ==
    /\ frame[c].pc = "stop_sleep"
    /\ frame' = [frame EXCEPT ![c] = loop_next(@)]
    /\ UNCHANGED <<env, holder, svc, console, bypass, nCalls>>

(* lines 164-166, _sg2: SetConsoleCtrlHandler(nullptr, false) *)
stop_restoreHandler(c) ==
    /\ frame[c].pc = "stop_restoreHandler"
    /\ bypass' = [bypass EXCEPT ![c] = FALSE]
    /\ frame' = [frame EXCEPT ![c] =
          [@ EXCEPT !.pc = "stop_detach"]]
    /\ UNCHANGED <<env, holder, svc, console, nCalls>>

(* lines 160-162, _sg1: FreeConsole() *)
stop_detach(c) ==
    /\ frame[c].pc = "stop_detach"
    /\ console' = [console EXCEPT ![c] = "none"]
    /\ frame' = [frame EXCEPT ![c] =
          [@ EXCEPT !.pc = "stop_AllocConsole"]]
    /\ UNCHANGED <<env, holder, svc, bypass, nCalls>>

(* a stop() whose outermost scope guard does not give the console back *)
stop_AllocConsole_skipped(c) ==
    /\ frame[c].pc = "stop_AllocConsole"
    /\ frame' = [frame EXCEPT ![c] = Return([@ EXCEPT !.ret = frame[c].ok])]
    /\ UNCHANGED <<env, holder, svc, console, bypass, nCalls>>

(* lines 155-158 and 184, _sg0: if (hadConsole) AllocConsole(); return ok *)
stop_AllocConsole(c) ==
    /\ frame[c].pc = "stop_AllocConsole"
    /\ console' = [console EXCEPT ![c] = IF frame[c].hadConsole THEN "own" ELSE @]
    /\ frame' = [frame EXCEPT ![c] =
          Return([@ EXCEPT !.ret = frame[c].ok])]
    /\ UNCHANGED <<env, holder, svc, bypass, nCalls>>

(* ---- the service process ---- *)
(* the spawned service takes the lock for itself and so writes its pid into it *)
SvcRegister(p) ==
    /\ svc[p] = "spawned"
    /\ holder = NoPid
    /\ holder' = p
    /\ svc' = [svc EXCEPT ![p] = "running"]
    /\ UNCHANGED <<env, console, bypass, nCalls, frame>>

(* the service process exits; the lock it held is released *)
SvcExit(p) ==
    /\ svc[p] \in {"spawned", "running"}
    /\ svc' = [svc EXCEPT ![p] = "exited"]
    /\ holder' = IF holder = p THEN NoPid ELSE holder
    /\ UNCHANGED <<env, console, bypass, nCalls, frame>>

Next ==
    \/ \E c \in Controllers, o \in Ops : Call(c, o)
    \/ \E c \in Controllers : Returned(c)
    \/ \E c \in Controllers : status_tryLock(c)
    \/ \E c \in Controllers : status_unlock(c)
    \/ \E c \in Controllers : serviceExists(c)
    \/ \E c \in Controllers : getPid(c)
    \/ \E c \in Controllers : start_findExecutable(c)
    \/ \E c \in Controllers : start_spawn(c)
    \/ \E c \in Controllers : stop_getPid(c)
    \/ \E c \in Controllers : stop_kill(c)
    \/ \E c \in Controllers : stop_FreeConsole(c)
    \/ \E c \in Controllers : stop_AttachConsole(c)
    \/ \E c \in Controllers : stop_SetConsoleCtrlHandler(c)
    \/ \E c \in Controllers : stop_GenerateConsoleCtrlEvent(c)
    \/ \E c \in Controllers : stop_sleep(c)
    \/ \E c \in Controllers : stop_restoreHandler(c)
    \/ \E c \in Controllers : stop_detach(c)
    \/ \E c \in Controllers : stop_AllocConsole(c)
    \/ \E p \in SvcPids : SvcRegister(p)
    \/ \E p \in SvcPids : SvcExit(p)

Spec == Init /\ [][Next]_vars

(* the steps of controller c's own thread inside a call it has made *)
ControllerStep(c) ==
    \/ Returned(c)
    \/ status_tryLock(c)
    \/ status_unlock(c)
    \/ serviceExists(c)
    \/ getPid(c)
    \/ start_findExecutable(c)
    \/ start_spawn(c)
    \/ stop_getPid(c)
    \/ stop_kill(c)
    \/ stop_FreeConsole(c)
    \/ stop_AttachConsole(c)
    \/ stop_SetConsoleCtrlHandler(c)
    \/ stop_GenerateConsoleCtrlEvent(c)
    \/ stop_sleep(c)
    \/ stop_restoreHandler(c)
    \/ stop_detach(c)
    \/ stop_AllocConsole(c)

(* every call is straight-line code of system calls that return (tryLock  *)
(* does not wait, msleep(500) is a timed sleep): a controller that is     *)
(* inside a call goes on to its next statement.  Nothing is assumed about *)
(* when calls are made or about what the service processes do.            *)
FairSpec == Spec /\ \A c \in Controllers : WF_vars(ControllerStep(c))

(***************************************************************************)
(* Properties                                                              *)
(***************************************************************************)
StatusPcs == {"status_tryLock", "status_unlock"}

(* this step is controller c's status() returning to its caller *)
StatusReturned(c) ==
    /\ frame[c].pc \in StatusPcs
    /\ frame'[c].pc \notin StatusPcs

(* this step is controller c's stop() reaching its return statement *)
StopReturns(c) ==
    /\ frame[c].op = "stop"
    /\ frame[c].pc # "done"
    /\ frame'[c].pc = "done"

(* this step is controller c reading the lock's metadata in getPid() *)
GetPidStep(c) ==
    /\ frame[c].pc \in {"getPid", "stop_getPid"}
    /\ frame'[c].pc # frame[c].pc

TypeOK ==
    /\ isWin \in BOOLEAN
    /\ holder \in {NoPid} \cup Controllers \cup SvcPids
    /\ svc \in [SvcPids -> {"none", "spawned", "running", "exited"}]
    /\ console \in [Controllers -> {"none", "own", "target"}]
    /\ bypass \in [Controllers -> BOOLEAN]
    /\ nCalls \in 0..MaxCalls
    /\ \A c \in Controllers :
        /\ frame[c].op \in Ops \cup {"none"}
        /\ frame[c].stRes \in {NoStatus, Stopped, Running, Unknown}
        /\ frame[c].entrySt \in {NoStatus, Stopped, Running, Unknown}
        /\ frame[c].i \in 0..MaxAttempts
        /\ frame[c].pid \in {PidNotFound, NoPid} \cup Controllers \cup SvcPids

(* C1: a status() call makes one tryLock attempt and returns Stopped when it  *)
(* got the lock (which it has released again), Running when the attempt       *)
(* failed with LockFailedError, and Unknown with an error message set when it *)
(* failed otherwise; a controller holds the lock only between its tryLock and *)
(* its unlock, never after status() returned.                                 *)
C1_StatusMapsLockOutcome ==
    \A c \in Controllers :
        /\ holder = ControllerPid(c) => frame[c].pc = "status_unlock"
        /\ (frame[c].op = "status" /\ frame[c].pc = "done") =>
            /\ frame[c].probes = 1
            /\ frame[c].stRes \in {Stopped, Running, Unknown}
            /\ frame[c].lockErr = NoError =>
                  frame[c].stRes = Stopped /\ frame[c].error = NoMessage
            /\ frame[c].lockErr = LockFailedError =>
                  frame[c].stRes = Running /\ frame[c].error = NoMessage
            /\ frame[c].lockErr \in OtherLockErrors =>
                  frame[c].stRes = Unknown /\ frame[c].error = ErrLockAccess

C1_Witness ==
    \E c, d \in Controllers :
        /\ c # d
        /\ frame[c].op = "status" /\ frame[c].pc = "done"
        /\ frame[c].stRes = Stopped /\ holder = NoPid
        /\ frame[d].op = "status" /\ frame[d].pc = "done"
        /\ frame[d].stRes = Unknown /\ frame[d].error = ErrLockAccess

(* C2: whenever a status() call returns Running, the lock is held by a        *)
(* running service process (lock held <=> service considered Running).        *)
C2_RunningOnlyIfServiceHoldsLock ==
    [][\A c \in Controllers :
          (StatusReturned(c) /\ frame'[c].stRes = Running) =>
              (holder \in SvcPids /\ svc[holder] = "running")]_vars

(* C3: a start() that directly follows a start() of the same controller which *)
(* returned true returns true as well, and the two calls together spawn at    *)
(* most one process (stated for calls whose status() check met no lock access *)
(* error).                                                                    *)
C3_StartTwiceSpawnsOnce ==
    \A c \in Controllers :
        (frame[c].op = "start" /\ frame[c].pc = "done"
            /\ frame[c].prevStart \in {"spawned", "running"}
            /\ frame[c].stRes # Unknown) =>
            /\ frame[c].ret
            /\ ~(frame[c].prevStart = "spawned" /\ frame[c].spawnPid # NoPid)

(* C4: when the status() check at the entry of stop() reports Stopped, stop() *)
(* returns true at once: no pid is looked up, no signal is sent, no console   *)
(* is detached or attached, no handler is changed, no control event is        *)
(* generated and no error is set.                                             *)
C4_StopOnStoppedDoesNothing ==
    [][\A c \in Controllers :
          (frame[c].caller = "stop" /\ StatusReturned(c) /\ frame'[c].stRes = Stopped) =>
              /\ frame'[c].pc = "done"
              /\ frame'[c].ret
              /\ frame'[c].info = "none" /\ frame'[c].pid = 0
              /\ frame'[c].kills = 0
              /\ ~frame'[c].touched /\ ~frame'[c].generated
              /\ frame'[c].error = NoMessage
              /\ console' = console /\ bypass' = bypass /\ svc' = svc]_vars

C4_Witness ==
    \E c \in Controllers :
        /\ frame[c].op = "stop" /\ frame[c].pc = "done"
        /\ frame[c].entrySt = Stopped /\ frame[c].ret
        /\ frame[c].info = "none" /\ frame[c].kills = 0 /\ ~frame[c].touched

(* C5 as claimed: a stop() whose status check reported Running never returns *)
(* true for a service process that still runs and holds the lock when stop() *)
(* returns.                                                                  *)
C5_StopTrueMeansStopped ==
    [][\A c \in Controllers :
          (StopReturns(c) /\ frame'[c].entrySt = Running /\ frame'[c].ret
              /\ frame'[c].pid \in SvcPids) =>
              ~(svc'[frame'[c].pid] = "running" /\ holder' = frame'[c].pid)]_vars

(* C5, amended: a stop() whose status check did not report Stopped and whose *)
(* pid lookup succeeded ends, on POSIX, with the one kill() call and sets no *)
(* error of its own (true means the signal was sent, not that the service is *)
(* gone); on Windows it returns true only if an interrupt event was          *)
(* generated and the status() check after it did not report Running, and it  *)
(* returns false with "Service did not stop yet" exactly when the 10         *)
(* attempts of the loop are used up.                                         *)
C5_StopOnRunning ==
    [][\A c \in Controllers :
          (StopReturns(c) /\ frame'[c].info = "read") =>
              IF ~isWin
              THEN /\ frame[c].pc = "stop_kill"
                   /\ frame'[c].kills = 1
                   /\ frame'[c].error = frame[c].error
                   /\ ~frame'[c].generated /\ frame'[c].i = 0
              ELSE /\ frame'[c].kills = 0
                   /\ frame'[c].ret =>
                        (frame'[c].generated /\ frame'[c].stRes \in {Stopped, Unknown})
                   /\ frame[c].i = MaxAttempts <=> frame'[c].error = ErrNotStopped
                   /\ frame[c].i = MaxAttempts => ~frame'[c].ret]_vars

C5_Witness ==
    \E c \in Controllers :
        /\ ~isWin
        /\ frame[c].op = "stop" /\ frame[c].pc = "done" /\ frame[c].ret
        /\ frame[c].entrySt = Running /\ frame[c].kills = 1
        /\ frame[c].pid \in SvcPids
        /\ svc[frame[c].pid] = "running" /\ holder = frame[c].pid

(* the Windows loop can run out of attempts, and can succeed *)
C5_WitnessTimeout ==
    \E c \in Controllers :
        /\ isWin /\ frame[c].pc = "stop_restoreHandler"
        /\ frame[c].i = MaxAttempts /\ frame[c].error = ErrNotStopped /\ ~frame[c].ok

C5_WitnessStopped ==
    \E c \in Controllers :
        /\ isWin /\ frame[c].op = "stop" /\ frame[c].pc = "done" /\ frame[c].ret
        /\ frame[c].generated /\ frame[c].stRes = Stopped /\ frame[c].pid \in SvcPids

(* C6: once the process that a controller's start() spawned holds the lock,   *)
(* a status() of that controller whose tryLock meets no access error returns *)
(* Running, and its getPid(), when the metadata can be read, returns the pid  *)
(* of the spawned process.                                                    *)
C6_SpawnedServiceIsSeen ==
    [][\A c \in Controllers :
          (frame[c].started # NoPid /\ holder = frame[c].started) =>
              /\ (StatusReturned(c) /\ frame[c].caller = "status") =>
                    (frame'[c].stRes = Running \/ frame'[c].lockErr \in OtherLockErrors)
              /\ (GetPidStep(c) /\ frame'[c].info = "read") =>
                    frame'[c].pid = frame[c].started]_vars

C6_Witness ==
    \E c \in Controllers :
        /\ frame[c].op = "getPid" /\ frame[c].pc = "done"
        /\ frame[c].started # NoPid
        /\ frame[c].pid = frame[c].started
        /\ holder = frame[c].started /\ svc[holder] = "running"

(* C7: a start() or stop() that returns false, and a status() that returns   *)
(* Unknown, has set an error message during the call (stated for calls that  *)
(* did not take another controller for the service).                         *)
C7_FailureSetsError ==
    \A c \in Controllers :
        (frame[c].pc = "done" /\ frame[c].pid \notin Controllers) =>
            /\ (frame[c].op \in {"start", "stop"} /\ ~frame[c].ret) =>
                  frame[c].error # NoMessage
            /\ (frame[c].op = "status" /\ frame[c].stRes = Unknown) =>
                  frame[c].error # NoMessage

(* C8 as claimed, for the case that no controller holds the lock: a start()  *)
(* for an identity without executable does not return true.                  *)
C8_NoExecutableStartFails ==
    [][\A c \in Controllers :
          (frame[c].caller = "start" /\ StatusReturned(c) /\ ~exe[c]
              /\ holder \notin Controllers) =>
              ~(frame'[c].pc = "done" /\ frame'[c].ret)]_vars

(* C8, amended: for an identity without executable, start() returns false    *)
(* with the "Unabled to find executable" error and spawns nothing, unless    *)
(* its status() check reports Running: then it returns true, again without   *)
(* spawning.  serviceExists() returns whether an executable is found.        *)
C8_NoExecutable ==
    \A c \in Controllers :
        frame[c].pc = "done" =>
            /\ (frame[c].op = "start" /\ ~exe[c]) =>
                  /\ frame[c].spawnPid = NoPid
                  /\ frame[c].launch = <<>>
                  /\ IF frame[c].entrySt = Running
                     THEN frame[c].ret /\ frame[c].error = NoMessage
                     ELSE ~frame[c].ret /\ frame[c].error = ErrNoExecutable
            /\ frame[c].op = "serviceExists" => (frame[c].ret <=> exe[c])

C8_Witness ==
    \E c \in Controllers :
        /\ frame[c].op = "start" /\ frame[c].pc = "done" /\ ~exe[c]
        /\ frame[c].entrySt = Stopped
        /\ ~frame[c].ret /\ frame[c].error = ErrNoExecutable
        /\ \A p \in SvcPids : svc[p] = "none"

C10_ConsoleRestored ==
    \A c \in Controllers :
        frame[c].pc \in {"done", "idle"} =>
            /\ console[c] # "target"
            /\ ~bypass[c]
            /\ frame[c].pc = "done" =>
                  ((console[c] # "none") <=> (frame[c].entryConsole # "none"))

C10_Witness ==
    \E c \in Controllers :
        /\ isWin
        /\ frame[c].op = "stop" /\ frame[c].pc = "done"
        /\ frame[c].touched /\ frame[c].generated
        /\ frame[c].entryConsole = "own" /\ console[c] = "own" /\ ~bypass[c]

(* C11: the Windows retry loop of stop() stays within its budget: every     *)
(* iteration starts with i < 10, an event is generated at most once per     *)
(* value of i, a sleep happens at most once per value of i and only after   *)
(* the status check of that iteration, i grows by one between iterations    *)
(* whatever the outcome, and a stop() that has detached its console goes on *)
(* to return.                                                               *)
C11_LoopStep(c) ==
    LET f == frame[c]
        g == frame'[c]
        LoopExits == {"stop_GenerateConsoleCtrlEvent", "stop_restoreHandler"}
    IN /\ (f.pc = "stop_GenerateConsoleCtrlEvent" /\ g # f) =>
             /\ f.i < MaxAttempts
             /\ \/ g.pc = "status_tryLock" /\ g.caller = "loop" /\ g.i = f.i
                \/ g.pc \in LoopExits /\ g.i = f.i + 1
       /\ (f.pc = "stop_sleep" /\ g # f) =>
             /\ f.i < MaxAttempts
             /\ g.pc \in LoopExits /\ g.i = f.i + 1
       /\ (f.caller = "loop" /\ f.pc \in StatusPcs /\ g # f) =>
             /\ g.i = f.i
             /\ g.pc \in StatusPcs \cup {"stop_sleep", "stop_restoreHandler"}
       /\ (g.pc = "stop_GenerateConsoleCtrlEvent" /\ g # f) =>
             /\ g.i < MaxAttempts
             /\ \/ f.pc = "stop_SetConsoleCtrlHandler" /\ g.i = 0
                \/ f.pc \in {"stop_GenerateConsoleCtrlEvent", "stop_sleep"} /\ g.i = f.i + 1
       /\ (g.pc = "stop_sleep" /\ g # f) =>
             f.caller = "loop" /\ f.pc \in StatusPcs

C11_LoopTerminatesWithinBudget ==
    /\ [][\A c \in Controllers : C11_LoopStep(c)]_vars
    /\ \A c \in Controllers :
          (frame[c].pc = "stop_FreeConsole") ~> (frame[c].pc = "done")

(* the budget is used up: ten iterations, the last one with a generated event *)
C11_Witness ==
    \E c \in Controllers :
        /\ frame[c].op = "stop"
        /\ frame[c].pc = "stop_restoreHandler"
        /\ frame[c].i = MaxAttempts
        /\ frame[c].generated
        /\ ~frame[c].ok

(* C12: lock acquisition never blocks.  A status() call that is about to    *)
(* try the lock can always take that step, whoever holds the lock; when the *)
(* lock is held the same step already returns Running or Unknown and leaves *)
(* the lock alone; when it took the lock itself its next step, which it can *)
(* always take, releases the lock and returns Stopped; so every status()    *)
(* call completes within two steps of its own, whatever the other processes *)
(* do, with one of Running, Stopped, Unknown.                               *)
C12_Step(c) ==
    LET f == frame[c]
        g == frame'[c]
    IN /\ (f.pc = "status_tryLock" /\ g # f) =>
             IF holder # NoPid
             THEN /\ StatusReturned(c)
                  /\ g.stRes \in {Running, Unknown}
                  /\ holder' = holder
             ELSE \/ g.pc = "status_unlock" /\ holder' = ControllerPid(c)
                  \/ StatusReturned(c) /\ g.stRes = Unknown
       /\ (f.pc = "status_unlock" /\ g # f) =>
             StatusReturned(c) /\ g.stRes = Stopped /\ holder' = NoPid
       /\ StatusReturned(c) => g.stRes \in {Running, Stopped, Unknown}

C12_CanStep(c) ==
    /\ frame[c].pc = "status_tryLock" => ENABLED status_tryLock(c)
    /\ frame[c].pc = "status_unlock" => ENABLED status_unlock(c)

C12_StatusNeverBlocks ==
    /\ \A c \in Controllers : C12_CanStep(c)
    /\ [][\A c \in Controllers : C12_CanStep(c)' /\ C12_Step(c)]_vars

(* two status() calls at once: one holds the lock for its probe, the other *)
(* has tried the lock meanwhile and returned                               *)
C12_Witness ==
    \E c, d \in Controllers :
        /\ c # d
        /\ frame[d].op = "status" /\ frame[d].pc = "status_unlock"
        /\ holder = ControllerPid(d)
        /\ frame[c].op = "status" /\ frame[c].pc = "done"
        /\ frame[c].probes = 1
        /\ frame[c].stRes = Running

(* C13: whenever a service process is spawned, it is spawned by a start()   *)
(* at its launch statement, with the arguments "--backend" and "debug" for  *)
(* a debug-mode controller or "standard" for a production one, and with the *)
(* filesystem root as working directory.                                    *)
C13_Spawns(c, p) ==
    /\ frame[c].op = "start"
    /\ frame[c].pc = "start_spawn"
    /\ frame'[c].spawnPid = p
    /\ frame'[c].launch.args =
          <<"--backend", IF debugMode[c] THEN "debug" ELSE "standard">>
    /\ frame'[c].launch.workingDirectory = "/"

C13_LaunchSpec ==
    [][\A p \in SvcPids :
          (svc[p] = "none" /\ svc'[p] # "none") =>
              \E c \in Controllers : C13_Spawns(c, p)]_vars

(* a production controller and a debug controller have both spawned *)
C13_Witness ==
    \E c, d \in Controllers :
        /\ ~debugMode[c] /\ debugMode[d]
        /\ frame[c].op = "start" /\ frame[c].pc = "done"
        /\ frame[c].spawnPid \in SvcPids
        /\ frame[c].launch.args[2] = "standard"
        /\ frame[d].op = "start" /\ frame[d].pc = "done"
        /\ frame[d].spawnPid \in SvcPids
        /\ frame[d].launch.args[2] = "debug"

(* C14: on Windows stop() returns true only if the status() check after a   *)
(* generated interrupt event returned Stopped.                              *)
C14_SuccessOnlyAfterStopped ==
    [][\A c \in Controllers :
          ( /\ StopReturns(c)
            /\ frame[c].pc = "stop_AllocConsole"
            /\ frame[c].entrySt = Running
            /\ frame[c].pid \in SvcPids
            /\ frame'[c].ret = TRUE )
          => (frame[c].generated /\ frame[c].stRes = Stopped)]_vars

(* C15: a setup step of the Windows stop() that fails (attaching to the     *)
(* target's console, disabling the local handler, generating the event)     *)
(* goes straight to cleanup with the error captured for that step, and no   *)
(* later setup step is performed.                                           *)
CleanupPcs == {"stop_restoreHandler", "stop_detach", "stop_AllocConsole"}

C15_StepFailed(c) ==
    /\ frame'[c] # frame[c]
    /\ frame[c].pid \in SvcPids
    /\ frame[c].entrySt = Running
    /\ \/ frame[c].pc = "stop_AttachConsole" /\ console'[c] # "target"
       \/ frame[c].pc = "stop_SetConsoleCtrlHandler" /\ ~bypass'[c]
       \/ frame[c].pc = "stop_GenerateConsoleCtrlEvent" /\ frame'[c].pc # "status_tryLock"

C15_SpecificError(pc) ==
    CASE pc = "stop_AttachConsole" -> ErrAttach
      [] pc = "stop_SetConsoleCtrlHandler" -> ErrHandler
      [] pc = "stop_GenerateConsoleCtrlEvent" -> ErrSendFailed

C15_FailedStepShortCircuits ==
    [][\A c \in Controllers :
          C15_StepFailed(c) =>
              /\ frame'[c].pc \in CleanupPcs
              /\ frame'[c].error = C15_SpecificError(frame[c].pc)
              /\ ~frame'[c].ok]_vars

(* C16 as stated: once stop() has detached its own console, all three       *)
(* cleanup steps run, in the order restore handler, detach from the target  *)
(* console, reattach the own console, also when a setup step failed.        *)
C16_AllThreeCleanupStepsRun ==
    [][\A c \in Controllers :
          frame[c].pid \in SvcPids =>
            /\ (frame'[c].pc = "stop_AllocConsole" /\ frame'[c] # frame[c])
                  => frame[c].pc = "stop_detach"
            /\ (frame'[c].pc = "stop_detach" /\ frame'[c] # frame[c])
                  => frame[c].pc = "stop_restoreHandler"]_vars

(* C16: once stop() has detached its own console, cleanup undoes every      *)
(* setup step that succeeded, in the reverse order of setup: the handler is *)
(* restored if it was disabled, then the target console is detached if it  *)
(* was attached, then the own console is given back if there was one; the   *)
(* last step runs on every path, and a step whose setup failed or was never *)
(* reached is skipped.                                                      *)
C16_InLoop(c) ==
    \/ frame[c].pc \in {"stop_GenerateConsoleCtrlEvent", "stop_sleep"}
    \/ frame[c].caller = "loop" /\ frame[c].pc \in StatusPcs

C16_Pending(c) ==
    /\ bypass[c] => (C16_InLoop(c) \/ frame[c].pc = "stop_restoreHandler")
    /\ console[c] = "target" =>
          \/ C16_InLoop(c)
          \/ frame[c].pc \in {"stop_SetConsoleCtrlHandler", "stop_restoreHandler",
                               "stop_detach"}

C16_CleanupStep(c) ==
    LET f == frame[c]
        g == frame'[c]
    IN /\ (f.pc = "stop_restoreHandler" /\ g # f) =>
             g.pc = "stop_detach" /\ ~bypass'[c]
       /\ (f.pc = "stop_detach" /\ g # f) =>
             g.pc = "stop_AllocConsole" /\ console'[c] = "none"
       /\ (f.pc = "stop_AllocConsole" /\ g # f) =>
             /\ g.pc = "done"
             /\ console'[c] = IF f.hadConsole THEN "own" ELSE "none"
       /\ (f.touched /\ f.pc # "done" /\ g.pc = "done") =>
             f.pc = "stop_AllocConsole"
       /\ (g.pc = "stop_detach" /\ g # f) =>
             f.pc \in {"stop_restoreHandler", "stop_SetConsoleCtrlHandler"}
       /\ (g.pc = "stop_AllocConsole" /\ g # f) =>
             f.pc \in {"stop_detach", "stop_AttachConsole"}
       /\ (g.pc = "stop_restoreHandler" /\ g # f) => bypass[c]

C16_CleanupUndoesSetup ==
    /\ \A c \in Controllers : C16_Pending(c)
    /\ [][\A c \in Controllers : C16_Pending(c)' /\ C16_CleanupStep(c)]_vars

(* a stop() that could not disable its handler has detached from the target *)
(* console and has its own console back                                     *)
C16_Witness ==
    \E c \in Controllers :
        /\ frame[c].op = "stop" /\ frame[c].pc = "done"
        /\ frame[c].error = ErrHandler
        /\ frame[c].touched
        /\ frame[c].entryConsole = "own"
        /\ console[c] = "own"

(* C17: when stop() finds the status not Stopped and getPid() returns -1,   *)
(* it returns false at once with the error about the PID, having sent no    *)
(* signal, generated no console event and left the console attachment and   *)
(* the control handler as they were.                                        *)
C17_NoPidStopFails ==
    [][\A c \in Controllers :
          ( /\ frame[c].pc = "stop_getPid"
            /\ frame'[c] # frame[c]
            /\ frame'[c].pid = PidNotFound )
          => /\ frame[c].entrySt # Stopped
             /\ frame'[c].pc = "done"
             /\ frame'[c].ret = FALSE
             /\ frame'[c].error = ErrNoPid
             /\ frame'[c].kills = 0
             /\ ~frame'[c].generated
             /\ ~frame'[c].touched
             /\ console' = console
             /\ bypass' = bypass]_vars

(* the service exited between the status check and getPid() *)
C17_Witness ==
    \E c \in Controllers :
        /\ frame[c].op = "stop" /\ frame[c].pc = "done"
        /\ frame[c].entrySt = Running
        /\ frame[c].pid = PidNotFound
        /\ frame[c].info = "missing"
        /\ frame[c].error = ErrNoPid

(* C18: on POSIX a stop() that found the status not Stopped and resolved a  *)
(* PID sends one termination signal to that PID and returns with that step: *)
(* no second signal, no status check after it, none of the Windows steps;   *)
(* it returns true only if the signal could be delivered, and a signal to a *)
(* PID that no process has is not delivered.                                *)
WindowsPcs ==
    {"stop_FreeConsole", "stop_AttachConsole", "stop_SetConsoleCtrlHandler",
     "stop_GenerateConsoleCtrlEvent", "stop_sleep"} \cup CleanupPcs

C18_KillStep(c) ==
    LET f == frame[c]
        g == frame'[c]
    IN /\ (f.pc = "stop_kill" /\ g # f) =>
             /\ f.op = "stop"
             /\ f.entrySt # Stopped
             /\ f.pid # PidNotFound
             /\ f.kills = 0 /\ g.kills = 1
             /\ g.pid = f.pid
             /\ g.pc = "done"
             /\ g.ret => Alive(f.pid)
             /\ holder' = holder /\ svc' = svc
       /\ (g.pc = "stop_kill" /\ g # f) =>
             f.pc = "stop_getPid" /\ g.pid = getPidResult(holder, g.info = "read")

C18_Posix(c) ==
    ~isWin =>
        /\ frame[c].pc \notin WindowsPcs
        /\ frame[c].caller # "loop"
        /\ frame[c].kills <= 1
        /\ (frame[c].op = "stop" /\ frame[c].pc = "done" /\ frame[c].kills = 0)
              => (frame[c].ret <=> frame[c].entrySt = Stopped)

C18_PosixStopIsOneSignal ==
    /\ \A c \in Controllers : C18_Posix(c)
    /\ [][\A c \in Controllers : C18_Posix(c)' /\ C18_KillStep(c)]_vars

(* the signal reached the service process and stop() returned true *)
C18_Witness ==
    \E c \in Controllers :
        /\ ~isWin
        /\ frame[c].op = "stop" /\ frame[c].pc = "done"
        /\ frame[c].entrySt = Running
        /\ frame[c].pid \in SvcPids
        /\ frame[c].kills = 1
        /\ frame[c].ret

(* C19: every termination signal and every console attach issued by stop()  *)
(* targets a service process, never another controller that holds the lock  *)
(* for the moment inside its own status() call.                             *)
C19_StopTargetsService ==
    [][\A c \in Controllers :
          ( /\ frame[c].pc \in {"stop_kill", "stop_AttachConsole"}
            /\ frame'[c] # frame[c] )
          => frame[c].pid \in SvcPids]_vars

(* C20: whenever start() returns true, either this call spawned a service   *)
(* process or a live service process held the lock at its status check.     *)
C20_StartTrueMeansService ==
    [][\A c \in Controllers :
          ( /\ frame[c].op = "start"
            /\ frame[c].pc # "done"
            /\ frame'[c].pc = "done"
            /\ frame'[c].ret = TRUE )
          => \/ frame'[c].spawnPid \in SvcPids
             \/ holder \in SvcPids /\ Alive(holder)]_vars
====
